---- MODULE Spec2Model ----
(***************************************************************************)
(* A model of vsort (src/src/lib.rs): the GNU version-sort comparator.     *)
(*                                                                         *)
(* A string is a sequence of code points (naturals).  A u64 value is kept  *)
(* as its canonical decimal digit sequence (no leading zero, zero = <<>>), *)
(* so that the width of the type stays exact: a digit run parses to a      *)
(* value only when it is at most u64::MAX = 18446744073709551615, and two  *)
(* values compare by length and then digit by digit.                       *)
(***************************************************************************)
EXTENDS Integers, Sequences, FiniteSets, TLC

VARIABLES a, b, c, pc, res, ext, remainder, chunks, ret

vars == <<a, b, c, pc, res, ext, remainder, chunks, ret>>

(***************************************************************************)
(* Characters                                                              *)
(***************************************************************************)
\* '~' (lib.rs:150) and '.' (the regex of lib.rs:124)
Tilde == 126
Dot == 46
\* Option<char>::None, the end of a non-digit run (lib.rs:133)
NoChar == -1

\* char::is_ascii_digit: '0'..'9'
is_ascii_digit(ch) == ch \in 48..57

\* char::is_ascii_alphabetic: 'A'..'Z' or 'a'..'z'
is_ascii_alphabetic(ch) == ch \in 65..90 \/ ch \in 97..122

\* s[i..] (1-based, i in 1..Len(s)+1)
From(s, i) == SubSeq(s, i, Len(s))

\* Ord for integers (char::cmp on code points)
IntCmp(x, y) == IF x < y THEN "Less" ELSE IF x > y THEN "Greater" ELSE "Equal"

(***************************************************************************)
(* non_digit_seq / digit_seq: split at the first character that is (not)   *)
(* an ASCII digit; the whole string when there is none.                    *)
(***************************************************************************)
\* find: the first of the positions hits of a string of n characters, n + 1
\* when there is none (unwrap_or((a, "")))
FirstIndex(hits, n) ==
    IF hits = {} THEN n + 1
    ELSE CHOOSE i \in hits : \A j \in hits : i <= j

non_digit_seq(s) ==
    LET i == FirstIndex({k \in 1..Len(s) : is_ascii_digit(s[k])}, Len(s))
    IN  <<SubSeq(s, 1, i - 1), From(s, i)>>

digit_seq(s) ==
    LET i == FirstIndex({k \in 1..Len(s) : ~is_ascii_digit(s[k])}, Len(s))
    IN  <<SubSeq(s, 1, i - 1), From(s, i)>>

(***************************************************************************)
(* str::parse::<u64>().unwrap_or_default()                                 *)
(***************************************************************************)
\* u64::MAX = 18446744073709551615, as decimal digits
U64MaxDigits == <<1,8,4,4,6,7,4,4,0,7,3,7,0,9,5,5,1,6,1,5>>

\* the digits of a run of ASCII digits
DigitValues(d) == [i \in 1..Len(d) |-> d[i] - 48]

\* a digit sequence without its leading zeros
StripZeros(d) == From(d, FirstIndex({k \in 1..Len(d) : d[k] # 0}, Len(d)))

\* magnitude order of two canonical digit sequences
MagCmp(x, y) ==
    IF Len(x) # Len(y) THEN IntCmp(Len(x), Len(y))
    ELSE LET diff == {i \in 1..Len(x) : x[i] # y[i]}
         IN  IF diff = {} THEN "Equal"
             ELSE LET i == CHOOSE k \in diff : \A j \in diff : k <= j
                  IN  IntCmp(x[i], y[i])

\* u64::cmp
u64_cmp(x, y) == MagCmp(x, y)

\* a slip: Err becomes u64::MAX (unwrap_or(u64::MAX)) instead of 0
parse_u64_ErrMax(d) ==
    LET v == StripZeros(DigitValues(d))
    IN  IF d = <<>> THEN U64MaxDigits
        ELSE IF MagCmp(v, U64MaxDigits) = "Greater" THEN U64MaxDigits
        ELSE v

\* parse::<u64>: Err on the empty string and on a value above u64::MAX;
\* unwrap_or_default turns Err into 0
parse_u64(d) ==
    LET v == StripZeros(DigitValues(d))
    IN  IF d = <<>> THEN <<>>
        ELSE IF MagCmp(v, U64MaxDigits) = "Greater" THEN <<>>
        ELSE v

(***************************************************************************)
(* VersionSortChunkIterator::next                                          *)
(***************************************************************************)
None == [some |-> FALSE]

\* a slip: self.remainder takes the first `out`, the rest after the
\* non-digit run, so the digit run is parsed but not consumed
ChunkNext_DigitsLeft(self) ==
    IF self = <<>> THEN [item |-> None, remainder |-> self]
    ELSE LET nd == non_digit_seq(self)
             dg == digit_seq(nd[2])
         IN  [item |-> [some |-> TRUE, str |-> nd[1], digits |-> parse_u64(dg[1])],
              remainder |-> nd[2]]

ChunkNext(self) ==
    IF self = <<>> THEN [item |-> None, remainder |-> self]
    ELSE LET nd == non_digit_seq(self)
             dg == digit_seq(nd[2])
         IN  [item |-> [some |-> TRUE, str |-> nd[1], digits |-> parse_u64(dg[1])],
              remainder |-> dg[2]]

(***************************************************************************)
(* Slips of VersionSortChar::partial_cmp                                   *)
(***************************************************************************)
\* two characters other than the tilde compare by code point alone: the
\* match on is_ascii_alphabetic is missing
VersionSortCharCmp_ByCodePoint(x, y) ==
    IF x = NoChar /\ y = NoChar THEN "Equal"
    ELSE IF y = NoChar THEN (IF x = Tilde THEN "Less" ELSE "Greater")
    ELSE IF x = NoChar THEN (IF y = Tilde THEN "Greater" ELSE "Less")
    ELSE IF x = y THEN "Equal"
    ELSE IF x = Tilde THEN "Less"
    ELSE IF y = Tilde THEN "Greater"
    ELSE IntCmp(x, y)

\* the (false, true) arm repeats the (true, false) arm's Less
VersionSortCharCmp_ArmSlip(x, y) ==
    IF x = NoChar /\ y = NoChar THEN "Equal"
    ELSE IF y = NoChar THEN (IF x = Tilde THEN "Less" ELSE "Greater")
    ELSE IF x = NoChar THEN (IF y = Tilde THEN "Greater" ELSE "Less")
    ELSE IF x = y THEN "Equal"
    ELSE IF x = Tilde THEN "Less"
    ELSE IF y = Tilde THEN "Greater"
    ELSE IF is_ascii_alphabetic(x) = is_ascii_alphabetic(y) THEN IntCmp(x, y)
    ELSE "Less"

(***************************************************************************)
(* VersionSortChar::partial_cmp, on Option<char> (NoChar is None)          *)
(***************************************************************************)
VersionSortCharCmp(x, y) ==
    IF x = NoChar /\ y = NoChar THEN "Equal"
    ELSE IF y = NoChar THEN (IF x = Tilde THEN "Less" ELSE "Greater")
    ELSE IF x = NoChar THEN (IF y = Tilde THEN "Greater" ELSE "Less")
    ELSE IF x = y THEN "Equal"
    ELSE IF x = Tilde THEN "Less"
    ELSE IF y = Tilde THEN "Greater"
    ELSE IF is_ascii_alphabetic(x) = is_ascii_alphabetic(y) THEN IntCmp(x, y)
    ELSE IF is_ascii_alphabetic(x) THEN "Less"
    ELSE "Greater"

\* chars().next() at position i
CharAt(s, i) == IF i <= Len(s) THEN s[i] ELSE NoChar

RECURSIVE NonDigitLoop(_, _, _)
NonDigitLoop(x, y, i) ==
    LET a_char == CharAt(x, i)
        b_char == CharAt(y, i)
    IN  IF a_char = NoChar /\ b_char = NoChar THEN "Equal"
        ELSE LET cmp == VersionSortCharCmp(a_char, b_char)
             IN  IF cmp = "Equal" THEN NonDigitLoop(x, y, i + 1) ELSE cmp

compare_non_digit_seq(x, y) == NonDigitLoop(x, y, 1)

(***************************************************************************)
(* with_iterator: the chunked comparison                                   *)
(***************************************************************************)
RECURSIVE IterLoop(_, _)
IterLoop(a_iter, b_iter) ==
    LET an == ChunkNext(a_iter)
        bn == ChunkNext(b_iter)
        a_chunk == an.item
        b_chunk == bn.item
    IN  IF ~a_chunk.some /\ ~b_chunk.some THEN "Equal"
        ELSE LET a_str == IF a_chunk.some THEN a_chunk.str ELSE <<>>
                 a_digits == IF a_chunk.some THEN a_chunk.digits ELSE <<>>
                 b_str == IF b_chunk.some THEN b_chunk.str ELSE <<>>
                 b_digits == IF b_chunk.some THEN b_chunk.digits ELSE <<>>
                 cmp1 == compare_non_digit_seq(a_str, b_str)
             IN  IF cmp1 # "Equal" THEN cmp1
                 ELSE LET cmp2 == u64_cmp(a_digits, b_digits)
                      IN  IF cmp2 # "Equal" THEN cmp2
                          ELSE IterLoop(an.remainder, bn.remainder)

\* a slip: the loop exits with Equal as soon as either iterator is exhausted
RECURSIVE EarlyExitLoop(_, _)
EarlyExitLoop(a_iter, b_iter) ==
    LET an == ChunkNext(a_iter)
        bn == ChunkNext(b_iter)
    IN  IF ~an.item.some \/ ~bn.item.some THEN "Equal"
        ELSE LET cmp1 == compare_non_digit_seq(an.item.str, bn.item.str)
             IN  IF cmp1 # "Equal" THEN cmp1
                 ELSE LET cmp2 == u64_cmp(an.item.digits, bn.item.digits)
                      IN  IF cmp2 # "Equal" THEN cmp2
                          ELSE EarlyExitLoop(an.remainder, bn.remainder)

with_iterator_EarlyExit(x, y) == EarlyExitLoop(x, y)

\* a slip: a digit run that does not parse ties with every other run
\* (the two parse results are matched, and an Err on either side is Equal)
Overflows(d) == MagCmp(StripZeros(DigitValues(d)), U64MaxDigits) = "Greater"

RECURSIVE ErrTiesLoop(_, _)
ErrTiesLoop(a_iter, b_iter) ==
    LET an == ChunkNext(a_iter)
        bn == ChunkNext(b_iter)
        a_str == IF an.item.some THEN an.item.str ELSE <<>>
        b_str == IF bn.item.some THEN bn.item.str ELSE <<>>
        a_run == digit_seq(non_digit_seq(a_iter)[2])[1]
        b_run == digit_seq(non_digit_seq(b_iter)[2])[1]
    IN  IF ~an.item.some /\ ~bn.item.some THEN "Equal"
        ELSE LET cmp1 == compare_non_digit_seq(a_str, b_str)
             IN  IF cmp1 # "Equal" THEN cmp1
                 ELSE LET cmp2 == IF Overflows(a_run) \/ Overflows(b_run)
                                  THEN "Equal"
                                  ELSE u64_cmp(parse_u64(a_run), parse_u64(b_run))
                      IN  IF cmp2 # "Equal" THEN cmp2
                          ELSE ErrTiesLoop(an.remainder, bn.remainder)

with_iterator_ErrTies(x, y) == ErrTiesLoop(x, y)

with_iterator(x, y) == IterLoop(x, y)

compare_version_sort(x, y) == with_iterator(x, y)

(***************************************************************************)
(* split_extension: the leftmost match of the regex of lib.rs:124, zero or *)
(* more segments [dot][A-Za-z~][A-Za-z0-9~]... anchored at the end         *)
(***************************************************************************)
\* a slip: the first character of a segment may be a digit too
ExtFirst_Digit(ch) == is_ascii_alphabetic(ch) \/ is_ascii_digit(ch) \/ ch = Tilde

\* [A-Za-z~]
ExtFirst(ch) == is_ascii_alphabetic(ch) \/ ch = Tilde

\* [A-Za-z0-9~]
ExtBody(ch) == is_ascii_alphabetic(ch) \/ is_ascii_digit(ch) \/ ch = Tilde

\* whether the regex matches s from position i to the end of s
RECURSIVE ExtMatch(_, _)
ExtMatch(s, i) ==
    \/ i = Len(s) + 1
    \/ /\ i + 1 <= Len(s)
       /\ s[i] = Dot
       /\ ExtFirst(s[i + 1])
       /\ \E j \in (i + 2)..(Len(s) + 1) :
            /\ \A k \in (i + 2)..(j - 1) : ExtBody(s[k])
            /\ ExtMatch(s, j)

\* Regex::find: the start of the leftmost match
ExtStart(s) == CHOOSE i \in 1..(Len(s) + 1) :
                  /\ ExtMatch(s, i)
                  /\ \A j \in 1..(i - 1) : ~ExtMatch(s, j)

split_extension(s) ==
    LET i == ExtStart(s)
    IN  <<SubSeq(s, 1, i - 1), From(s, i)>>

(***************************************************************************)
(* str::cmp: lexicographic on the UTF-8 bytes, which is the order of the   *)
(* code point sequences                                                    *)
(***************************************************************************)
str_cmp(x, y) ==
    LET n == IF Len(x) < Len(y) THEN Len(x) ELSE Len(y)
        diff == {i \in 1..n : x[i] # y[i]}
    IN  IF diff = {} THEN IntCmp(Len(x), Len(y))
        ELSE LET i == CHOOSE k \in diff : \A j \in diff : k <= j
             IN  IntCmp(x[i], y[i])

(***************************************************************************)
(* compare                                                                 *)
(***************************************************************************)
\* a slip: no tie-break by the raw strings
compare_NoTieBreak(x, y) ==
    LET cmp1 == compare_version_sort(split_extension(x)[1], split_extension(y)[1])
    IN  IF cmp1 # "Equal" THEN cmp1
        ELSE compare_version_sort(x, y)

\* a slip: the strings are compared with their extensions first
compare_FullFirst(x, y) ==
    LET cmp2 == compare_version_sort(x, y)
    IN  IF cmp2 # "Equal" THEN cmp2
        ELSE str_cmp(x, y)

compare(x, y) ==
    LET cmp1 == compare_version_sort(split_extension(x)[1], split_extension(y)[1])
    IN  IF cmp1 # "Equal" THEN cmp1
        ELSE LET cmp2 == compare_version_sort(x, y)
             IN  IF cmp2 # "Equal" THEN cmp2
                 ELSE str_cmp(x, y)

(***************************************************************************)
(* The inputs: strings of at most MaxLen pieces, each piece one character  *)
(* or one digit run, and the strings the tests and the benchmark name      *)
(***************************************************************************)
MaxLen == 3
MaxLen3 == 2
MaxLen1 == 4
MaxLenN == 3

\* "18446744073709551616" = 2^64, the least digit run parse::<u64> rejects
Over == [i \in 1..20 |-> 48 + (IF i = 20 THEN 6 ELSE U64MaxDigits[i])]

\* "18446744073709551615" = u64::MAX, the greatest digit run it accepts
Fits == [i \in 1..20 |-> 48 + U64MaxDigits[i]]

\* "~", ".", "a", "0", "1"
Chars == {<<126>>, <<46>>, <<97>>, <<48>>, <<49>>}

\* "~", ".", "a", "1"
Chars3 == {<<126>>, <<46>>, <<97>>, <<49>>}

\* the characters, "+", a Greek alpha, "000" and 2^64
Pieces == Chars \cup {<<43>>, <<945>>, <<48, 48, 48>>, Over}

RECURSIVE Strs(_, _)
Strs(pieces, n) ==
    IF n = 0 THEN {<<>>}
    ELSE LET S == Strs(pieces, n - 1)
         IN  S \cup {s \o t : s \in S, t \in pieces}

Corpus ==
    { <<97, 48, 48, 48, 49>>,        \* "a0001"
      <<97, 48, 48, 48, 48>>,        \* "a0000"
      <<97, 46, 98, 99>>,            \* "a.bc"
      <<97, 46, 98, 99, 126>>,       \* "a.bc~"
      <<97, 43>>,                    \* "a+"
      <<43>>,                        \* "+"
      <<97, 46, 43>>,                \* "a.+"
      <<46, 100, 51>>,               \* ".d3"
      <<46, 100, 50, 48>>,           \* ".d20"
      <<49, 37>>,                    \* "1%"
      <<49, 46, 50>>,                \* "1.2"
      <<97, 37>>,                    \* "a%"
      <<97, 122>>,                   \* "az"
      <<97, 945>>,                   \* "a" and a Greek alpha
      <<65>>,                        \* "A"
      <<50>>,                        \* "2"
      <<56, 46, 48, 49, 48>>,        \* "8.010"
      <<56, 46, 49, 48>>,            \* "8.10"
      <<56, 46, 53>>,                \* "8.5"
      Over, Fits,
      <<97>> \o Over,
      <<97>> \o Fits,
      Over \o <<46, 97>>,
      <<49>> \o Over }

Corpus3 ==
    { <<48>>,                        \* "0"
      <<97, 48>>,                    \* "a0"
      <<43>>,                        \* "+"
      <<97, 46, 97, 126>>,           \* "a.a~"
      <<46, 43>>,                    \* ".+"
      <<97, 46, 97, 49>>,            \* "a.a1"
      <<50>>,                        \* "2"
      Over, Fits,
      [i \in 1..20 |-> 57],          \* "99999999999999999999"
      Over \o <<126>>,
      Over \o <<46, 97>>,
      <<97>> \o Over,
      <<49>> \o Over }

Inputs == Strs(Chars, MaxLen) \cup Corpus

Inputs3 == Strs(Chars3, MaxLen3) \cup Corpus3

Inputs1 == Strs(Pieces, MaxLen1)

\* non-digit runs: "~", "a", "b", "&"
CharsN == {<<126>>, <<97>>, <<98>>, <<38>>}

\* non-digit runs of the tests, and letters, punctuation and a Greek alpha
\* on both sides of the ASCII letters
CorpusN ==
    { <<97, 97, 95>>,                \* "aa_"
      <<97, 65>>,                    \* "aA"
      <<97, 90>>,                    \* "aZ"
      <<97, 122>>,                   \* "az"
      <<97, 64>>,                    \* "a@"
      <<97, 91>>,                    \* "a["
      <<97, 123>>,                   \* "a{"
      <<97, 37>>,                    \* "a%"
      <<97, 46>>,                    \* "a."
      <<97, 945>>,                   \* "a" and a Greek alpha
      <<945>>,                       \* a Greek alpha
      <<91>>,                        \* "["
      <<65>>,                        \* "A"
      <<46>> }                       \* "."

InputsN == Strs(CharsN, MaxLenN) \cup CorpusN

\* one character or none: "", "~", "a", "A", "&", "[", a Greek alpha, "0"
OneChar == {<<>>, <<126>>, <<97>>, <<65>>, <<38>>, <<91>>, <<945>>, <<48>>}

\* a tokenizer that is not in use
NoIterator ==
    /\ remainder = <<>>
    /\ chunks = <<>>
    /\ ret = None

NoResult == [ab |-> "none", ba |-> "none", bc |-> "none", ac |-> "none"]

(***************************************************************************)
(* sort calls compare on pairs of its elements; a, b and c are three of    *)
(* them.  Compare is the calls of compare on them, and keeps what each     *)
(* call's split_extension returned.                                        *)
(***************************************************************************)
Init ==
    /\ a \in Inputs
    /\ b \in Inputs
    /\ c = <<>>
    /\ pc = "input"
    /\ res = NoResult
    /\ ext = <<>>
    /\ NoIterator

Init3 ==
    /\ a \in Inputs3
    /\ b \in Inputs3
    /\ c \in Inputs3
    /\ pc = "input"
    /\ res = NoResult
    /\ ext = <<>>
    /\ NoIterator

\* one string b, and a = b ++ "~"
Init1 ==
    /\ b \in Inputs1
    /\ a = b \o <<Tilde>>
    /\ c = <<>>
    /\ pc = "input"
    /\ res = NoResult
    /\ ext = <<>>
    /\ NoIterator

Compare ==
    /\ pc = "input"
    /\ res' = [ab |-> compare(a, b), ba |-> compare(b, a),
               bc |-> compare(b, c), ac |-> compare(a, c)]
    /\ ext' = <<split_extension(a), split_extension(b)>>
    /\ pc' = "done"
    /\ UNCHANGED <<a, b, c, remainder, chunks, ret>>

Next == Compare

Spec == Init /\ [][Next]_vars

Spec3 == Init3 /\ [][Next]_vars

Spec1 == Init1 /\ [][Next]_vars

(***************************************************************************)
(* compare_non_digit_seq on two non-digit runs a and b, as with_iterator   *)
(* and the test call it, and VersionSortChar::partial_cmp on the first      *)
(* characters (or None) of a, b and c                                      *)
(***************************************************************************)
InitN ==
    /\ a \in InputsN
    /\ b \in InputsN
    /\ c \in OneChar
    /\ pc = "input"
    /\ res = NoResult
    /\ ext = <<>>
    /\ NoIterator

CompareNonDigit ==
    /\ pc = "input"
    /\ res' = [ab |-> compare_non_digit_seq(a, b),
               ba |-> compare_non_digit_seq(b, a),
               bc |-> compare_non_digit_seq(b, c),
               ac |-> compare_non_digit_seq(a, c),
               xy |-> VersionSortCharCmp(CharAt(a, 1), CharAt(b, 1)),
               yx |-> VersionSortCharCmp(CharAt(b, 1), CharAt(a, 1)),
               yz |-> VersionSortCharCmp(CharAt(b, 1), CharAt(c, 1)),
               xz |-> VersionSortCharCmp(CharAt(a, 1), CharAt(c, 1))]
    /\ pc' = "ranked"
    /\ UNCHANGED <<a, b, c, ext, remainder, chunks, ret>>

NextN == CompareNonDigit

SpecN == InitN /\ [][NextN]_vars

(***************************************************************************)
(* VersionSortChunkIterator: new(a), then calls of next.  chunks are the   *)
(* items the calls returned so far, ret the last return value.             *)
(***************************************************************************)
\* "a1b2c3d"
TestString == <<97, 49, 98, 50, 99, 51, 100>>

InputsI == Inputs1 \cup {TestString}

InitI ==
    /\ a \in InputsI
    /\ b = <<>>
    /\ c = <<>>
    /\ pc = "new"
    /\ res = NoResult
    /\ ext = <<>>
    /\ remainder = a
    /\ chunks = <<>>
    /\ ret = None

IterNext ==
    LET n == ChunkNext(remainder)
    IN  /\ pc \in {"new", "next"}
        /\ remainder' = n.remainder
        /\ ret' = n.item
        /\ chunks' = IF n.item.some THEN Append(chunks, n.item) ELSE chunks
        /\ pc' = "next"
        /\ UNCHANGED <<a, b, c, res, ext>>

NextI == IterNext

SpecI == InitI /\ [][NextI]_vars

(***************************************************************************)
(* Properties                                                              *)
(***************************************************************************)
Done == pc = "done"

\* the same order with its arguments exchanged
Reverse(o) == CASE o = "Less" -> "Greater"
                [] o = "Greater" -> "Less"
                [] OTHER -> "Equal"

Le(o) == o \in {"Less", "Equal"}

Ge(o) == o \in {"Greater", "Equal"}

\* whether s holds the digit run 2^64, which parse::<u64> rejects
HasOverflow(s) ==
    \E i \in 1..(Len(s) - 19) : SubSeq(s, i, i + 19) = Over

\* C1: compare is transitive: a <= b and b <= c give a <= c, with Equal only
\* when both premises are Equal, and likewise for >=; also when a, b or c
\* hold a digit run that does not fit 64 bits.
C1_Transitive ==
    Done =>
      /\ (Le(res.ab) /\ Le(res.bc)) =>
            /\ Le(res.ac)
            /\ res.ac = "Equal" => (res.ab = "Equal" /\ res.bc = "Equal")
      /\ (Ge(res.ab) /\ Ge(res.bc)) =>
            /\ Ge(res.ac)
            /\ res.ac = "Equal" => (res.ab = "Equal" /\ res.bc = "Equal")

\* a chain a < b < c through a digit run that overflows
C1_Witness ==
    /\ Done
    /\ HasOverflow(b)
    /\ ~HasOverflow(a)
    /\ ~HasOverflow(c)
    /\ res.ab = "Less"
    /\ res.bc = "Less"
    /\ res.ac = "Less"

\* C2: compare(b, a) is the reverse of compare(a, b).
C2_Antisymmetric ==
    Done =>
      /\ res.ab = "Equal" => res.ba = "Equal"
      /\ res.ab = "Less" => res.ba = "Greater"
      /\ res.ba = Reverse(res.ab)

\* "a~" against "a": decided by the tilde against the end of the run
C2_Witness ==
    /\ Done
    /\ a = <<97, 126>>
    /\ b = <<97>>
    /\ res.ab = "Less"
    /\ res.ba = "Greater"

\* the privileged values "", "." and ".."
Priv == {<<>>, <<Dot>>, <<Dot, Dot>>}

\* a hidden name: starts with a dot and is neither "." nor ".."
Hidden(s) == Len(s) >= 1 /\ s[1] = Dot /\ s \notin Priv

\* C3: "" < "." < ".." < every other string.
C3_Claim ==
    Done =>
      /\ (a \in Priv /\ b \notin Priv) => res.ab = "Less"
      /\ (a = <<>> /\ b = <<Dot>>) => res.ab = "Less"
      /\ (a = <<Dot>> /\ b = <<Dot, Dot>>) => res.ab = "Less"

\* C4: a hidden name sorts before every non-empty name that does not start
\* with a dot.
C4_Claim ==
    Done =>
      ((Hidden(a) /\ b # <<>> /\ b[1] # Dot) => res.ab = "Less")

\* a non-empty run of ASCII digits
DigitRun(d) == d # <<>> /\ \A i \in 1..Len(d) : is_ascii_digit(d[i])

\* the value of a digit run, of any length
Value(d) == StripZeros(DigitValues(d))

\* a = p d1 q and b = p d2 q, p of lp and q of lq characters, p not ending
\* and q not starting with a digit, d1 and d2 digit runs
OneRunApart(lp, lq) ==
    /\ lp + lq < Len(a)
    /\ lp + lq < Len(b)
    /\ SubSeq(a, 1, lp) = SubSeq(b, 1, lp)
    /\ SubSeq(a, Len(a) - lq + 1, Len(a)) = SubSeq(b, Len(b) - lq + 1, Len(b))
    /\ DigitRun(SubSeq(a, lp + 1, Len(a) - lq))
    /\ DigitRun(SubSeq(b, lp + 1, Len(b) - lq))
    /\ (lp = 0 \/ ~is_ascii_digit(a[lp]))
    /\ (lq = 0 \/ ~is_ascii_digit(a[Len(a) - lq + 1]))

\* C5: two strings that differ in one digit run compare by the magnitude of
\* the run, whatever its length.
C5_Claim ==
    Done =>
      \A lp \in 0..Len(a), lq \in 0..Len(a) :
        (/\ OneRunApart(lp, lq)
         /\ MagCmp(Value(SubSeq(a, lp + 1, Len(a) - lq)),
                   Value(SubSeq(b, lp + 1, Len(b) - lq))) = "Less")
        => res.ab = "Less"

\* C6: compare(s ++ "~", s) = Less for every s, so "~" sorts before "".
C6_TildeLaw ==
    (Done /\ a = b \o <<Tilde>>) =>
      /\ res.ab = "Less"
      /\ res.ba = "Greater"

\* "~" against ""
C6_Witness ==
    /\ Done
    /\ b = <<>>
    /\ a = <<Tilde>>
    /\ res.ab = "Less"
    /\ res.ba = "Greater"

\* C7: compare is Equal only on identical strings; when both chunked
\* comparisons tie on distinct strings the result is their raw order.
C7_StrictTotal ==
    Done =>
      /\ res.ab = "Equal" => a = b
      /\ (/\ a # b
          /\ with_iterator(ext[1][1], ext[2][1]) = "Equal"
          /\ with_iterator(a, b) = "Equal")
         => (res.ab = str_cmp(a, b) /\ res.ab # "Equal")

\* "a0001" against "a1": the chunks tie, the raw order decides
C7_Witness ==
    /\ Done
    /\ a = <<97, 48, 48, 48, 49>>
    /\ b = <<97, 49>>
    /\ with_iterator(a, b) = "Equal"
    /\ res.ab = "Less"

\* "a0" or "a0000" against "a"
ZeroCase == b = <<97>> /\ a \in {<<97, 48>>, <<97, 48, 48, 48, 48>>}

\* C8 as stated: compare("a0", "a") = Equal and compare("a0000", "a") = Equal.
C8_Claim == (Done /\ ZeroCase) => res.ab = "Equal"

\* C8, amended: the chunked comparisons of "a0" and of "a0000" with "a" are
\* Equal, a missing digit run counting as zero; compare breaks the tie by the
\* raw order and returns Greater.
C8_ZeroTie ==
    (Done /\ ZeroCase) =>
      /\ with_iterator(ext[1][1], ext[2][1]) = "Equal"
      /\ with_iterator(a, b) = "Equal"
      /\ res.ab = "Greater"
      /\ res.ba = "Less"

C8_Witness ==
    /\ Done
    /\ b = <<97>>
    /\ a = <<97, 48, 48, 48, 48>>
    /\ res.ab = "Greater"

\* the grammar of an extension: every dot is followed by a letter or a
\* tilde, every other character is a letter, a digit or a tilde, and the
\* first character of a non-empty extension is a dot
IsExtension(t) ==
    \A i \in 1..Len(t) :
      IF t[i] = Dot
      THEN i < Len(t) /\ (is_ascii_alphabetic(t[i + 1]) \/ t[i + 1] = Tilde)
      ELSE i > 1 /\ (\/ is_ascii_alphabetic(t[i])
                     \/ is_ascii_digit(t[i])
                     \/ t[i] = Tilde)

\* (base, e) splits s at the longest suffix that is an extension
LongestExtension(s, base, e) ==
    /\ base \o e = s
    /\ IsExtension(e)
    /\ \A i \in 1..Len(base) : ~IsExtension(From(s, i))

\* C9: split_extension(s) = (base, ext) with base ++ ext = s and ext the
\* longest suffix of s that is a sequence of extension segments.
C9_SplitExtension ==
    Done =>
      /\ LongestExtension(a, ext[1][1], ext[1][2])
      /\ LongestExtension(b, ext[2][1], ext[2][2])

\* "a.a0" splits into "a" and ".a0", "a.a0~" into "a" and ".a0~"
C9_Witness ==
    /\ Done
    /\ b = <<97, 46, 97, 48>>
    /\ ext[2] = << <<97>>, <<46, 97, 48>> >>
    /\ ext[1] = << <<97>>, <<46, 97, 48, 126>> >>

\* neither privileged nor hidden
Plain(s) == s \notin Priv /\ s[1] # Dot

\* C10: for plain a and b, a chunked comparison of the bases that is not
\* Equal is the result of compare, even when the full strings compare the
\* other way ("a.bc" before "a+"); the full strings decide only when the
\* bases tie.
C10_BaseFirst ==
    (Done /\ Plain(a) /\ Plain(b)) =>
      LET bases == with_iterator(ext[1][1], ext[2][1])
          full == with_iterator(a, b)
      IN  /\ bases # "Equal" => res.ab = bases
          /\ (bases = "Equal" /\ full # "Equal") => res.ab = full
          /\ (a = <<97, 46, 98, 99>> /\ b = <<97, 43>>) => res.ab = "Less"

\* "a.bc" against "a+": the bases say Less, the full strings Greater
C10_Witness ==
    /\ Done
    /\ a = <<97, 46, 98, 99>>
    /\ b = <<97, 43>>
    /\ with_iterator(ext[1][1], ext[2][1]) = "Less"
    /\ with_iterator(a, b) = "Greater"
    /\ res.ab = "Less"

(***************************************************************************)
(* The character ranking                                                   *)
(***************************************************************************)
\* the rank the claim gives a character or the end of a run: the tilde, then
\* the end, then the ASCII letters by code point, then every other character
\* by code point (a letter's code point is below 128)
RankOf(ch) ==
    IF ch = Tilde THEN 0
    ELSE IF ch = NoChar THEN 1
    ELSE IF ch \in 65..90 \/ ch \in 97..122 THEN 2 + ch
    ELSE 130 + ch

\* the order of two ranks
RankCmp(x, y) ==
    IF RankOf(x) < RankOf(y) THEN "Less"
    ELSE IF RankOf(x) > RankOf(y) THEN "Greater"
    ELSE "Equal"

\* the lexicographic order of two runs, the shorter padded by the end marker
LexCmp(x, y) ==
    LET n == IF Len(x) < Len(y) THEN Len(y) ELSE Len(x)
        diff == {i \in 1..n : CharAt(x, i) # CharAt(y, i)}
    IN  IF diff = {} THEN "Equal"
        ELSE LET i == CHOOSE k \in diff : \A j \in diff : k <= j
             IN  RankCmp(CharAt(x, i), CharAt(y, i))

\* "aa~" < "aa" < "aaa" < "aab" < "aa&" < "aa_", as neighbours
TestChain ==
    << <<97, 97, 126>>, <<97, 97>>, <<97, 97, 97>>, <<97, 97, 98>>,
       <<97, 97, 38>>, <<97, 97, 95>> >>

Ranked == pc = "ranked"

\* C11: the character ranking is the total order tilde < end of run < ASCII
\* letters by code point < other characters by code point, and
\* compare_non_digit_seq is its lexicographic extension: "aa~" < "aa" < "aaa"
\* < "aab" < "aa&" < "aa_".
C11_CharRanking ==
    Ranked =>
      /\ res.xy = RankCmp(CharAt(a, 1), CharAt(b, 1))
      /\ res.yx = Reverse(res.xy)
      /\ (Le(res.xy) /\ Le(res.yz)) => Le(res.xz)
      /\ (res.xy = "Equal") = (CharAt(a, 1) = CharAt(b, 1))
      /\ res.ab = LexCmp(a, b)
      /\ \A i \in 1..(Len(TestChain) - 1), j \in 2..Len(TestChain) :
            (i < j /\ a = TestChain[i] /\ b = TestChain[j]) => res.ab = "Less"

\* "aab" before "aa&": a letter before punctuation of a lesser code point;
\* and the letter "a" before a Greek alpha
C11_Witness ==
    /\ Ranked
    /\ a = <<97, 97, 98>>
    /\ b = <<97, 97, 38>>
    /\ res.ab = "Less"
    /\ res.ba = "Greater"
    /\ c = <<945>>
    /\ res.xz = "Less"

(***************************************************************************)
(* The chunk tokenizer                                                     *)
(***************************************************************************)
\* what the calls of next have consumed of a
Consumed == SubSeq(a, 1, Len(a) - Len(remainder))

\* the non-digit parts of the chunks, concatenated
RECURSIVE StrsOf(_, _)
StrsOf(cs, i) == IF i > Len(cs) THEN <<>> ELSE cs[i].str \o StrsOf(cs, i + 1)

IsDigitChar(ch) == ch \in 48..57

IsNonDigitChar(ch) == ch \notin 48..57

\* in every state: the remainder is a suffix of a, the non-digit parts of
\* the chunks are the non-digits consumed, in order, no chunk was returned
\* without consuming a character, and a None leaves nothing
TokenizerInv ==
    (pc \in {"new", "next"}) =>
      /\ Len(remainder) <= Len(a)
      /\ remainder = From(a, Len(a) - Len(remainder) + 1)
      /\ StrsOf(chunks, 1) = SelectSeq(Consumed, IsNonDigitChar)
      /\ Len(chunks) <= Len(Consumed)
      /\ (pc = "next" /\ ~ret.some) => (remainder = <<>> /\ Consumed = a)
      /\ (pc = "next" /\ ret.some) => ret = chunks[Len(chunks)]
      /\ (a = TestString /\ pc = "next" /\ ~ret.some) =>
            chunks = << [some |-> TRUE, str |-> <<97>>, digits |-> <<1>>],
                        [some |-> TRUE, str |-> <<98>>, digits |-> <<2>>],
                        [some |-> TRUE, str |-> <<99>>, digits |-> <<3>>],
                        [some |-> TRUE, str |-> <<100>>, digits |-> <<>>] >>

\* a call of next that returns ret' : the remainder before the call is the
\* chunk's non-digit run, then a digit run, then the remainder after it
ChunkStep ==
    LET run == SubSeq(remainder, Len(ret'.str) + 1,
                      Len(remainder) - Len(remainder'))
    IN  /\ Len(remainder') < Len(remainder)
        /\ Len(ret'.str) + Len(remainder') <= Len(remainder)
        /\ remainder = ret'.str \o run \o remainder'
        /\ \A i \in 1..Len(ret'.str) : IsNonDigitChar(ret'.str[i])
        /\ \A i \in 1..Len(run) : IsDigitChar(run[i])
        /\ ret'.str \o run # <<>>
        /\ run = <<>> => remainder' = <<>>
        /\ remainder' # <<>> => IsNonDigitChar(remainder'[1])
        /\ chunks' = Append(chunks, ret')

\* every call of next
NextStep ==
    /\ ret'.some = (remainder # <<>>)
    /\ ret'.some => ChunkStep
    /\ ~ret'.some => (remainder' = remainder /\ chunks' = chunks)

\* C12: the remainder is always a suffix of the string and strictly shrinks
\* on every next() that returns a chunk; a chunk is one maximal non-digit
\* run followed by one maximal digit run, not both empty; the runs consumed
\* reconstruct the string without gap or overlap; next() returns None
\* exactly when the remainder is empty, after at most length(s) chunks;
\* "a1b2c3d" yields (a,1), (b,2), (c,3), (d,0) and then None.
C12_Tokenizer == []TokenizerInv /\ [][NextStep]_vars

\* "a1b2c3d" tokenized to its end
C12_Witness ==
    /\ a = TestString
    /\ pc = "next"
    /\ ~ret.some
    /\ remainder = <<>>
    /\ Len(chunks) = 4
    /\ chunks[4] = [some |-> TRUE, str |-> <<100>>, digits |-> <<>>]

====
